---- MODULE Spec2Model ----
(***************************************************************************)
(* rain.drops: indexing of OrderbookV4 ClearV2 / TakeOrderV2 event logs.   *)
(*                                                                         *)
(* SpecMerge models compose.rs: the pure function enrich_and_merge, driven *)
(* the way its property test drives it (one call, then the call with the   *)
(* two maps swapped).                                                      *)
(* Spec models lib.rs: runs of update_trades_csv against a chain and the   *)
(* CSV store, with get_start_block resolving the checkpoint.               *)
(***************************************************************************)
EXTENDS Naturals, Sequences, FiniteSets

\* ------------------------------------------------------------------ bounds
\* At most MaxEvents logs, of both categories together, in one merge call.
MaxEvents == 3

\* ------------------------------------------------------- values of the data
\* TradeEvent (logs.rs): the two categories.
ClearV2 == "ClearV2"
TakeOrderV2 == "TakeOrderV2"
TradeEvent == {ClearV2, TakeOrderV2}

\* Transaction hashes are opaque 32-byte values; two of them are enough to
\* tell a matching entry from a non-matching one.
TxHashes == {"h1", "h2"}

\* The block numbers and the log indexes of the generated merge inputs: two
\* of each, so that logs meet in one block and at one log index, and differ
\* in both.
BlockNumbers == {1, 2}
LogIndexes == {0, 1}

\* TradeLog (logs.rs): a partial trade parsed from one log.
TradeLog(li, bn, h, ev) ==
    [log_index |-> li, block_number |-> bn, tx_hash |-> h, event |-> ev]

\* TxMetadata (onchain/mod.rs). In the generated block bodies the origin of a
\* transaction is an address that names the block and the transaction, so
\* that an origin taken from another entry is a different value.
TxMetadata(h, o) == [hash |-> h, origin |-> o]

\* BlockMetadata (onchain/mod.rs).
BlockMetadata(ts, txs) == [timestamp |-> ts, transactions |-> txs]

\* Trade (lib.rs).
Trade(ts, o, ev, h) ==
    [timestamp |-> ts, tx_origin |-> o, event |-> ev, tx_hash |-> h]

\* ------------------------------------------------------------------ helpers
Range(s) == {s[i] : i \in 1..Len(s)}

RECURSIVE SumLens(_, _)
\* Sum of the lengths of the lists of map m over the key set ks
\* (values().map(|trades| trades.len()).sum()).
SumLens(m, ks) ==
    IF ks = {} THEN 0
    ELSE LET k == CHOOSE x \in ks : TRUE
         IN Len(m[k]) + SumLens(m, ks \ {k})

EventCount(m) == SumLens(m, DOMAIN m)

RECURSIVE KeysFrom(_)
\* The keys of a BTreeMap in iteration order: ascending.
KeysFrom(ks) ==
    IF ks = {} THEN <<>>
    ELSE LET k == CHOOSE x \in ks : \A y \in ks : x <= y
         IN <<k>> \o KeysFrom(ks \ {k})

keys(m) == KeysFrom(DOMAIN m)

\* Insert x into the sorted sequence s after every element that is <= x.
RECURSIVE InsertNat(_, _)
InsertNat(s, x) ==
    IF s = <<>> THEN <<x>>
    ELSE IF Head(s) <= x THEN <<Head(s)>> \o InsertNat(Tail(s), x)
    ELSE <<x>> \o s

RECURSIVE SortFrom(_, _)
SortFrom(acc, s) ==
    IF s = <<>> THEN acc ELSE SortFrom(InsertNat(acc, Head(s)), Tail(s))

\* Mutant of sorted: the chained keys are left as they come.
sorted_omitted(s) == s

\* Itertools::sorted on block numbers: duplicates are kept.
sorted(s) == SortFrom(<<>>, s)

\* Insert a log after every log whose log_index is <= its own: the step of a
\* stable sort.
RECURSIVE InsertByLogIndex(_, _)
InsertByLogIndex(s, x) ==
    IF s = <<>> THEN <<x>>
    ELSE IF Head(s).log_index <= x.log_index
         THEN <<Head(s)>> \o InsertByLogIndex(Tail(s), x)
    ELSE <<x>> \o s

RECURSIVE SortLogsFrom(_, _)
SortLogsFrom(acc, s) ==
    IF s = <<>> THEN acc
    ELSE SortLogsFrom(InsertByLogIndex(acc, Head(s)), Tail(s))

\* Mutant of sorted_by_key: the chained lists are left as they come.
sorted_by_key_omitted(s) == s

\* Itertools::sorted_by_key(|trade| trade.log_index): a stable sort.
sorted_by_key(s) == SortLogsFrom(<<>>, s)

\* BTreeMap::remove(&k).unwrap_or_default(): the list removed, or empty.
remove_or_default(m, k) == IF k \in DOMAIN m THEN m[k] ELSE <<>>

\* Mutant of removed: the list is read (get) and stays in the map.
removed_nothing(m, k) == m

\* The map after BTreeMap::remove(&k).
removed(m, k) == [x \in (DOMAIN m) \ {k} |-> m[x]]

\* ------------------------------------------------- compose.rs: the merger
\* The value of a call: the Vec<Trade> returned, or a panic (an unwrap of
\* None, an index out of bounds, a failed assertion), which unwinds the call
\* and returns nothing.
Returned(ts) == [panicked |-> FALSE, trades |-> ts]
Panicked == [panicked |-> TRUE, trades |-> <<>>]

\* Mutant of blocks_with_trades: the keys are chained and not sorted.
blocks_with_trades_chained(these_trades, other_trades) ==
    keys(these_trades) \o keys(other_trades)

\* compose.rs 19-24: the keys of both maps, chained and sorted; a block that
\* is a key of both maps appears twice.
blocks_with_trades(these_trades, other_trades) ==
    sorted(keys(these_trades) \o keys(other_trades))

\* Mutant of is_empty: no early return.
is_empty_never(blocks) == FALSE

\* compose.rs 26: the guard of the early return.
is_empty(blocks) == Len(blocks) = 0

\* compose.rs 46-54: the closure of flat_map for one block number: both
\* lists are removed from their maps, chained (the first map's list first)
\* and sorted by log index.
block_logs(block_number, these_trades, other_trades) ==
    sorted_by_key(remove_or_default(these_trades, block_number)
                  \o remove_or_default(other_trades, block_number))

RECURSIVE flat_map(_, _, _)
\* compose.rs 43-55: the logs in the order the iterator yields them. The maps
\* are mutated by the closure, so a block number met a second time finds
\* nothing left.
flat_map(blocks, these_trades, other_trades) ==
    IF blocks = <<>> THEN <<>>
    ELSE LET block_number == Head(blocks)
         IN block_logs(block_number, these_trades, other_trades)
            \o flat_map(Tail(blocks),
                        removed(these_trades, block_number),
                        removed(other_trades, block_number))

\* Address::ZERO, the placeholder where no origin was found.
NoOrigin == [block |-> 0, tx |-> "none"]

\* Mutant of find_map: the first transaction of the block, whatever its hash.
find_map_first(transactions, tx_hash) ==
    IF transactions = <<>> THEN [some |-> FALSE, origin |-> NoOrigin]
    ELSE [some |-> TRUE, origin |-> Head(transactions).origin]

\* Mutant of find_map: unwrap_or_default in place of unwrap.
find_map_or_default(transactions, tx_hash) ==
    LET found == {tx \in Range(transactions) : tx.hash = tx_hash}
    IN [some |-> TRUE,
        origin |-> IF found = {} THEN NoOrigin
                   ELSE (CHOOSE tx \in found : TRUE).origin]

RECURSIVE find_map(_, _)
\* compose.rs 60-68: the origin of the first transaction whose hash is
\* tx_hash, or None.
find_map(transactions, tx_hash) ==
    IF transactions = <<>> THEN [some |-> FALSE, origin |-> NoOrigin]
    ELSE IF Head(transactions).hash = tx_hash
         THEN [some |-> TRUE, origin |-> Head(transactions).origin]
    ELSE find_map(Tail(transactions), tx_hash)

\* Mutant of enrich: a log whose block has no body gets a default trade.
enrich_or_default(trade, block_bodies) ==
    IF trade.block_number \notin DOMAIN block_bodies
    THEN [some |-> TRUE, trade |-> Trade(0, NoOrigin, trade.event, trade.tx_hash)]
    ELSE LET body == block_bodies[trade.block_number]
             tx_origin == find_map(body.transactions, trade.tx_hash)
         IN [some |-> tx_origin.some,
             trade |-> Trade(body.timestamp, tx_origin.origin,
                             trade.event, trade.tx_hash)]

\* compose.rs 56-77: the closure of map for one log; None stands for the
\* panic of either unwrap.
enrich(trade, block_bodies) ==
    IF trade.block_number \notin DOMAIN block_bodies
    THEN [some |-> FALSE, trade |-> Trade(0, NoOrigin, trade.event, trade.tx_hash)]
    ELSE LET body == block_bodies[trade.block_number]
             tx_origin == find_map(body.transactions, trade.tx_hash)
         IN [some |-> tx_origin.some,
             trade |-> Trade(body.timestamp, tx_origin.origin,
                             trade.event, trade.tx_hash)]

RECURSIVE collect_vec(_, _, _)
\* compose.rs 56-78: the logs mapped to trades and collected; the first
\* panic ends the call.
collect_vec(logs, block_bodies, acc) ==
    IF logs = <<>> THEN Returned(acc)
    ELSE LET e == enrich(Head(logs), block_bodies)
         IN IF e.some
            THEN collect_vec(Tail(logs), block_bodies, Append(acc, e.trade))
            ELSE Panicked

\* compose.rs 83-84: assert_eq!(trade_count, clearv2 + takeorderv2 counts),
\* compiled under debug_assertions (the build the tests run).
assert_eq(result, these_trades, other_trades) ==
    IF result.panicked
       \/ Len(result.trades) = EventCount(these_trades) + EventCount(other_trades)
    THEN result
    ELSE Panicked

\* compose.rs 14-87.
enrich_and_merge(these_trades, other_trades, block_bodies) ==
    LET blocks == blocks_with_trades(these_trades, other_trades)
    IN IF is_empty(blocks) THEN Returned(<<>>)
       \* compose.rs 30-31: blocks[0] and blocks[len - 1]
       ELSE IF Len(blocks) = 0 THEN Panicked
       ELSE assert_eq(collect_vec(flat_map(blocks, these_trades, other_trades),
                                  block_bodies, <<>>),
                      these_trades, other_trades)

RECURSIVE count_lookups(_, _)
\* The number of block_bodies.get calls (compose.rs 58) a collection makes:
\* one per log, up to and including the log that panics.
count_lookups(logs, block_bodies) ==
    IF logs = <<>> THEN 0
    ELSE IF enrich(Head(logs), block_bodies).some
         THEN 1 + count_lookups(Tail(logs), block_bodies)
    ELSE 1

\* The block_bodies.get calls of one call of enrich_and_merge.
metadata_lookups(these_trades, other_trades, block_bodies) ==
    LET blocks == blocks_with_trades(these_trades, other_trades)
    IN IF is_empty(blocks) \/ Len(blocks) = 0 THEN 0
       ELSE count_lookups(flat_map(blocks, these_trades, other_trades),
                          block_bodies)

\* ------------------------------------------------------ logs.rs: grouping
RECURSIVE group_by_block(_, _)
\* logs.rs 83-88 and 146-151: the logs of one query grouped by block number,
\* each list in the order of the query's answer.
group_by_block(logs, acc) ==
    IF logs = <<>> THEN acc
    ELSE LET trade == Head(logs)
             bn == trade.block_number
             next == IF bn \in DOMAIN acc
                     THEN [acc EXCEPT ![bn] = Append(@, trade)]
                     ELSE [x \in (DOMAIN acc) \cup {bn} |->
                             IF x = bn THEN <<trade>> ELSE acc[x]]
         IN group_by_block(Tail(logs), next)

EmptyMap == [x \in {} |-> <<>>]

\* ------------------------------------------- the inputs of the merge calls
\* The logs of one block range as the chain holds them: at most MaxEvents
\* logs of the two categories, in any order.
LogLists ==
    UNION {[1..n -> {TradeLog(li, bn, h, ev) :
                        li \in LogIndexes, bn \in BlockNumbers,
                        h \in TxHashes, ev \in TradeEvent}]
           : n \in 0..MaxEvents}

\* The logs of category ev among logs, in order: the answer of one query.
SelectEvent(logs, ev) == SelectSeq(logs, LAMBDA t : t.event = ev)

\* The pairs of maps a caller can pass: the first holds the ClearV2 logs, the
\* second the TakeOrderV2 logs, and every key is the block number of its logs.
TradeMapPairs ==
    {<<group_by_block(SelectEvent(l, ClearV2), EmptyMap),
       group_by_block(SelectEvent(l, TakeOrderV2), EmptyMap)>> : l \in LogLists}

\* The address that sent transaction h of block bn.
OriginOf(bn, h) == [block |-> bn, tx |-> h]

\* The transaction tables of block bn: any transactions in any order, no hash
\* twice (a block holds a transaction once).
TxTables(bn) ==
    {t \in UNION {[1..n -> {TxMetadata(h, OriginOf(bn, h)) : h \in TxHashes}]
                  : n \in 0..Cardinality(TxHashes)} :
        \A i, j \in 1..Len(t) : i # j => t[i].hash # t[j].hash}

BlockTimestamp(bn) == 1000 + bn

\* The bodies block bn can have.
BodiesOf(bn) == {BlockMetadata(BlockTimestamp(bn), t) : t \in TxTables(bn)}

\* The block bodies a caller can pass: any subset of the blocks, so that a
\* block with events may have no body, or a body without the transaction.
BlockBodies ==
    UNION {{f \in [S -> UNION {BodiesOf(bn) : bn \in S}] :
              \A bn \in S : f[bn] \in BodiesOf(bn)}
           : S \in SUBSET BlockNumbers}

\* Section 8 of the specification, the concrete scenario: A at (10, 5) and
\* (12, 1), B at (10, 2) and (11, 0), bodies for blocks 10, 11 and 12.
ScenarioThese ==
    group_by_block(<<TradeLog(5, 10, "a105", ClearV2),
                     TradeLog(1, 12, "a121", ClearV2)>>, EmptyMap)
ScenarioOther ==
    group_by_block(<<TradeLog(2, 10, "b102", TakeOrderV2),
                     TradeLog(0, 11, "b110", TakeOrderV2)>>, EmptyMap)
ScenarioBodies ==
    [bn \in {10, 11, 12} |->
        BlockMetadata(BlockTimestamp(bn),
            IF bn = 10 THEN <<TxMetadata("a105", OriginOf(10, "a105")),
                              TxMetadata("b102", OriginOf(10, "b102"))>>
            ELSE IF bn = 11 THEN <<TxMetadata("b110", OriginOf(11, "b110"))>>
            ELSE <<TxMetadata("a121", OriginOf(12, "a121"))>>)]

\* --------------------------------------- the merge calls as a state machine
VARIABLES
    these_trades,    \* first argument: the ClearV2 logs by block
    other_trades,    \* second argument: the TakeOrderV2 logs by block
    block_bodies,    \* third argument: the block bodies by block number
    trades,          \* enrich_and_merge(these, other, bodies)
    flipped_trades,  \* enrich_and_merge(other, these, bodies)
    merged_logs,     \* the logs the trades of `trades` were built from, in order
    lookups,         \* the block_bodies.get calls of the first call
    mpc              \* "args", "merged", "flipped" or "panicked"

mvars == <<these_trades, other_trades, block_bodies, trades, flipped_trades,
           merged_logs, lookups, mpc>>

\* The state of the runs of update_trades_csv (lib.rs) and of their world.
VARIABLES
    current_block,      \* the chain: the number of its latest block
    chain_logs,         \* the chain: the logs of every block, mined or to come
    mempool,            \* the chain: transactions known but in no block
    reorged,            \* the chain: a reorganization has happened
    csv_exists,         \* the store: the file at env.csv_path exists
    csv_rows,           \* the store: the rows of the file
    csv_writer,         \* the rows written to csv_writer and not flushed
    pc,                 \* where the run is; "idle" between runs
    runs,               \* the runs started
    file_exists,        \* lib.rs 38
    start_block,        \* lib.rs 41
    latest_block,       \* lib.rs 43
    block_batch_start,  \* lib.rs 67
    outcome,            \* how the last step of the run ended: "ok", "panic",
                        \* or "err: " and the call whose error `?` returned
    tx_lookups,         \* the get_block_number_by_tx_hash calls of the run
    saved_rows,         \* the rows of the store when the run started
    windows,            \* the windows the run has fetched, in order
    transient,          \* the last window's event queries failed and were
                        \* retried within the retry limit
    resuming            \* the run before this one appended a window, and
                        \* the chain had the same height from then on

dvars == <<current_block, chain_logs, mempool, reorged, csv_exists, csv_rows,
           csv_writer, pc, runs, file_exists, start_block, latest_block,
           block_batch_start, outcome, tx_lookups, saved_rows, windows,
           transient, resuming>>

vars == <<mvars, dvars>>

\* No run is in progress while the merger is exercised alone.
NoRuns ==
    /\ current_block = 0
    /\ chain_logs = <<>>
    /\ mempool = {}
    /\ reorged = FALSE
    /\ csv_exists = FALSE
    /\ csv_rows = <<>>
    /\ csv_writer = <<>>
    /\ pc = "idle"
    /\ runs = 0
    /\ file_exists = FALSE
    /\ start_block = 0
    /\ latest_block = 0
    /\ block_batch_start = 0
    /\ outcome = "ok"
    /\ tx_lookups = 0
    /\ saved_rows = <<>>
    /\ windows = <<>>
    /\ transient = FALSE
    /\ resuming = FALSE

NotCalled == Returned(<<>>)

\* No merge call is exercised alone while the runs are.
NoMergeCalls ==
    /\ these_trades = EmptyMap
    /\ other_trades = EmptyMap
    /\ block_bodies = EmptyMap
    /\ trades = NotCalled
    /\ flipped_trades = NotCalled
    /\ merged_logs = <<>>
    /\ lookups = 0
    /\ mpc = "args"

InitMerge ==
    /\ NoRuns
    /\ \/ /\ \E pair \in TradeMapPairs :
                /\ these_trades = pair[1]
                /\ other_trades = pair[2]
          /\ block_bodies \in BlockBodies
       \/ /\ these_trades = ScenarioThese
          /\ other_trades = ScenarioOther
          /\ block_bodies = ScenarioBodies
    /\ trades = NotCalled
    /\ flipped_trades = NotCalled
    /\ merged_logs = <<>>
    /\ lookups = 0
    /\ mpc = "args"

\* compose.rs 117-121: trades = enrich_and_merge(clearv2, takeorderv2, bodies).
\* A panic ends the process: nothing is called after it.
CallMerge ==
    /\ mpc = "args"
    /\ trades' = enrich_and_merge(these_trades, other_trades, block_bodies)
    /\ merged_logs' =
          IF trades'.panicked THEN <<>>
          ELSE flat_map(blocks_with_trades(these_trades, other_trades),
                        these_trades, other_trades)
    /\ lookups' = metadata_lookups(these_trades, other_trades, block_bodies)
    /\ mpc' = IF trades'.panicked THEN "panicked" ELSE "merged"
    /\ UNCHANGED <<these_trades, other_trades, block_bodies, flipped_trades>>
    /\ UNCHANGED dvars

\* compose.rs 130-134: flipped = enrich_and_merge(takeorderv2, clearv2, bodies).
CallFlipped ==
    /\ mpc = "merged"
    /\ flipped_trades' =
          enrich_and_merge(other_trades, these_trades, block_bodies)
    /\ mpc' = IF flipped_trades'.panicked THEN "panicked" ELSE "flipped"
    /\ UNCHANGED <<these_trades, other_trades, block_bodies, trades,
                   merged_logs, lookups>>
    /\ UNCHANGED dvars

NextMerge == CallMerge \/ CallFlipped

SpecMerge == InitMerge /\ [][NextMerge]_vars

\* ------------------------------------------------ properties of the merger
\* Every log of map m, as a set.
LogsOf(m) == UNION {Range(m[bn]) : bn \in DOMAIN m}

AllLogs == LogsOf(these_trades) \cup LogsOf(other_trades)

TotalEvents == EventCount(these_trades) + EventCount(other_trades)

\* The log's block has a body.
HasBody(t) == t.block_number \in DOMAIN block_bodies

\* The log's block has a body that holds the log's transaction.
HasTx(t) ==
    /\ HasBody(t)
    /\ \E tx \in Range(block_bodies[t.block_number].transactions) :
          tx.hash = t.tx_hash

\* Every block referenced has complete metadata and matching transactions.
CompleteMetadata == \A t \in AllLogs : HasTx(t)

\* No block holds a log of each map with the same log index.
DisjointLogIndexes ==
    \A a \in LogsOf(these_trades), b \in LogsOf(other_trades) :
        a.block_number = b.block_number => a.log_index # b.log_index

Merged == mpc \in {"merged", "flipped"}
Called == mpc # "args"

\* C1. Conservation: with complete metadata the call returns, and returns as
\* many trades as the two maps hold logs; so does the call with the maps
\* swapped. A block that is a key of both maps is counted once per log.
C1_Conservation ==
    (Called /\ CompleteMetadata) =>
        /\ ~trades.panicked
        /\ Len(trades.trades) = TotalEvents
        /\ mpc = "flipped" =>
              /\ ~flipped_trades.panicked
              /\ Len(flipped_trades.trades) = TotalEvents

C1_Witness ==
    /\ mpc = "flipped"
    /\ CompleteMetadata
    /\ \E bn \in DOMAIN these_trades : bn \in DOMAIN other_trades
    /\ TotalEvents = MaxEvents

\* C2. Commutativity: when no block holds a log of each map with the same
\* log index and the metadata is complete, the call with the maps swapped
\* returns the same sequence of trades.
C2_Commutativity ==
    (Called /\ DisjointLogIndexes /\ CompleteMetadata) =>
        /\ mpc # "panicked"
        /\ mpc = "flipped" => flipped_trades = trades

C2_Witness ==
    /\ mpc = "flipped"
    /\ DisjointLogIndexes
    /\ CompleteMetadata
    /\ \E bn \in DOMAIN these_trades : bn \in DOMAIN other_trades
    /\ flipped_trades = trades
    /\ Len(trades.trades) >= 2

\* (block_number, log_index) of a is at most that of b.
PairLeq(a, b) ==
    \/ a.block_number < b.block_number
    \/ a.block_number = b.block_number /\ a.log_index <= b.log_index

\* C3. Ordering: the trades returned are built, position by position, from
\* logs whose (block_number, log_index) pairs never decrease, whatever the
\* order of the lists inside the maps.
C3_Ordering ==
    Merged =>
        /\ Len(merged_logs) = Len(trades.trades)
        /\ \A i \in 1..Len(merged_logs) :
              /\ trades.trades[i].tx_hash = merged_logs[i].tx_hash
              /\ trades.trades[i].event = merged_logs[i].event
              /\ trades.trades[i].timestamp =
                    block_bodies[merged_logs[i].block_number].timestamp
        /\ \A i, j \in 1..Len(merged_logs) :
              i < j => PairLeq(merged_logs[i], merged_logs[j])

\* A list of a map is out of order, and so are the keys of the two maps
\* when chained.
C3_Witness ==
    /\ Merged
    /\ \E bn \in DOMAIN these_trades :
          /\ Len(these_trades[bn]) >= 2
          /\ these_trades[bn][1].log_index > these_trades[bn][2].log_index
    /\ \E a \in DOMAIN these_trades, b \in DOMAIN other_trades : b < a
    /\ Len(trades.trades) = MaxEvents

\* The logs of map m, block after block in key order, each list as it is.
RECURSIVE Flatten(_, _)
Flatten(m, ks) ==
    IF ks = <<>> THEN <<>> ELSE m[Head(ks)] \o Flatten(m, Tail(ks))

\* Insert a log after every log whose (block_number, log_index) is at most
\* its own: the step of a stable sort of the whole list.
RECURSIVE InsertByPair(_, _)
InsertByPair(s, x) ==
    IF s = <<>> THEN <<x>>
    ELSE IF PairLeq(Head(s), x) THEN <<Head(s)>> \o InsertByPair(Tail(s), x)
    ELSE <<x>> \o s

RECURSIVE SortByPairFrom(_, _)
SortByPairFrom(acc, s) ==
    IF s = <<>> THEN acc
    ELSE SortByPairFrom(InsertByPair(acc, Head(s)), Tail(s))

\* The trade the reference merge makes of a log: the timestamp of its block,
\* the origin of the entry of that block with the log's hash.
RefTrade(t) ==
    LET body == block_bodies[t.block_number]
        tx == CHOOSE x \in Range(body.transactions) : x.hash = t.tx_hash
    IN Trade(body.timestamp, tx.origin, t.event, t.tx_hash)

\* The reference merge (section 9 of the specification): every log of both
\* maps in one list (the first map's before the second's), stable-sorted by
\* (block_number, log_index), each mapped to its trade.
RefMerge ==
    LET tagged == Flatten(these_trades, keys(these_trades))
                  \o Flatten(other_trades, keys(other_trades))
        ordered == SortByPairFrom(<<>>, tagged)
    IN [i \in 1..Len(ordered) |-> RefTrade(ordered[i])]

IsScenario ==
    /\ these_trades = ScenarioThese
    /\ other_trades = ScenarioOther
    /\ block_bodies = ScenarioBodies

\* [block10/log2(B), block10/log5(A), block11/log0(B), block12/log1(A)]
ScenarioExpected ==
    <<Trade(BlockTimestamp(10), OriginOf(10, "b102"), TakeOrderV2, "b102"),
      Trade(BlockTimestamp(10), OriginOf(10, "a105"), ClearV2, "a105"),
      Trade(BlockTimestamp(11), OriginOf(11, "b110"), TakeOrderV2, "b110"),
      Trade(BlockTimestamp(12), OriginOf(12, "a121"), ClearV2, "a121")>>

\* C4. With complete metadata enrich_and_merge returns what the reference
\* merge returns, and in the concrete scenario it returns the four trades
\* 10/2(B), 10/5(A), 11/0(B), 12/1(A) with the fields of their blocks.
C4_ReferenceMerge ==
    /\ (Called /\ CompleteMetadata) => trades = Returned(RefMerge)
    /\ (Called /\ IsScenario) => trades = Returned(ScenarioExpected)

C4_Witness ==
    /\ mpc = "merged"
    /\ IsScenario
    /\ Len(trades.trades) = 4

\* C5. A log whose block has no body makes the call panic: nothing is
\* returned, no log is skipped, no later call is made, and no log is looked
\* up more than once.
C5_MissingBodyPanics ==
    (Called /\ \E t \in AllLogs : ~HasBody(t)) =>
        /\ trades = Panicked
        /\ mpc = "panicked"
        /\ flipped_trades = NotCalled
        /\ lookups <= TotalEvents

\* A log was enriched before the log without a body was met.
C5_Witness ==
    /\ mpc = "panicked"
    /\ \E t \in AllLogs : ~HasBody(t)
    /\ \A t \in AllLogs : HasBody(t) => HasTx(t)
    /\ lookups >= 2

\* C6. A log whose hash is in no entry of its block's transaction table
\* makes the call panic: nothing is returned, the log is neither skipped nor
\* given a default origin.
C6_MissingTxPanics ==
    (Called /\ \E t \in AllLogs : HasBody(t) /\ ~HasTx(t)) =>
        /\ trades = Panicked
        /\ mpc = "panicked"

C6_Witness ==
    /\ mpc = "panicked"
    /\ \A t \in AllLogs : HasBody(t)
    /\ \E t \in AllLogs : ~HasTx(t)
    /\ lookups >= 2

\* C7. Emptiness: with no key in either map the call returns the empty
\* sequence and makes no metadata lookup, also when there is no metadata.
C7_Emptiness ==
    (Called /\ DOMAIN these_trades = {} /\ DOMAIN other_trades = {}) =>
        /\ trades = Returned(<<>>)
        /\ lookups = 0
        /\ mpc # "panicked"
        /\ mpc = "flipped" => flipped_trades = Returned(<<>>)

C7_Witness ==
    /\ mpc = "flipped"
    /\ DOMAIN these_trades = {}
    /\ DOMAIN other_trades = {}
    /\ DOMAIN block_bodies = {}

\* C8. Deterministic tie-break: the order of the trades does not depend on
\* which of the two maps is passed first, also when a log of each map has
\* the same log index in one block.
C8_TieBreakDeterministic ==
    (mpc = "flipped" /\ ~DisjointLogIndexes) => flipped_trades = trades

\* ------------------------------------------------------- lib.rs: the runs
\* env.orderbookv4_deployment_block (env.rs 34).
orderbookv4_deployment_block == 1
\* env.blocks_per_log_request (env.rs 38).
blocks_per_log_request == 2
\* The chain never grows beyond block MaxHeight.
MaxHeight == 4
\* At most MaxRuns runs of update_trades_csv.
MaxRuns == 2
\* The chain emits at most MaxChainEvents events.
MaxChainEvents == 2

\* The transaction that emitted log i of block bn: each log has its own.
TxOf(bn, i) == [block |-> bn, tx |-> i]

\* What a block can emit: nothing, one event of either category, or one of
\* each; log i of a block has log index i - 1.
BlockEvents ==
    {<<>>, <<ClearV2>>, <<TakeOrderV2>>, <<TakeOrderV2, ClearV2>>}

\* The logs of block bn when it emits the events evs.
LogsOfBlock(bn, evs) ==
    [i \in 1..Len(evs) |-> TradeLog(i - 1, bn, TxOf(bn, i), evs[i])]

\* The events of the blocks from bn on, counted.
RECURSIVE EventsFrom(_, _)
EventsFrom(c, bn) ==
    IF bn > MaxHeight THEN 0 ELSE Len(c[bn]) + EventsFrom(c, bn + 1)

\* The chains: the logs of every block from the deployment block on, with
\* at most MaxChainEvents events in all.
Chains ==
    {[bn \in orderbookv4_deployment_block..MaxHeight |->
         LogsOfBlock(bn, c[bn])] :
       c \in {e \in [orderbookv4_deployment_block..MaxHeight -> BlockEvents] :
                EventsFrom(e, orderbookv4_deployment_block) <= MaxChainEvents}}

\* The blocks mined so far.
MinedBlocks == orderbookv4_deployment_block..current_block

\* The block that holds transaction tx_hash, as a set: empty when no mined
\* block holds it.
BlocksHolding(tx_hash) ==
    {bn \in MinedBlocks : \E i \in 1..Len(chain_logs[bn]) :
                             chain_logs[bn][i].tx_hash = tx_hash}

\* provider.get_transaction_by_hash(tx_hash) (real.rs 41-42): the
\* transaction with the number of its block, a transaction with no block
\* number (known, not mined), or None.
get_transaction_by_hash(tx_hash) ==
    IF BlocksHolding(tx_hash) # {}
    THEN [some |-> TRUE, has_block |-> TRUE,
          block_number |-> CHOOSE bn \in BlocksHolding(tx_hash) : TRUE]
    ELSE IF tx_hash \in mempool
    THEN [some |-> TRUE, has_block |-> FALSE, block_number |-> 0]
    ELSE [some |-> FALSE, has_block |-> FALSE, block_number |-> 0]

\* An Option<BlockNumber>.
Some(bn) == [some |-> TRUE, value |-> bn]
None == [some |-> FALSE, value |-> 0]

\* Mutant of get_block_number_by_tx_hash: the block before the
\* transaction's.
get_block_number_by_tx_hash_before(tx_hash) ==
    LET tx == get_transaction_by_hash(tx_hash)
    IN IF tx.some /\ tx.has_block THEN Some(tx.block_number - 1) ELSE None

\* real.rs 37-48: RealChain::get_block_number_by_tx_hash, which MockChain
\* forwards to (mock.rs 40-45):
\*   tx.and_then(|tx| tx.block_number).map(|block_num| block_num + 1)
get_block_number_by_tx_hash(tx_hash) ==
    LET tx == get_transaction_by_hash(tx_hash)
    IN IF tx.some /\ tx.has_block THEN Some(tx.block_number + 1) ELSE None

\* The rows of the CSV file: the header row and the rows of the trades.
\* (The header's four names stand in the place of a trade that is never read.)
HeaderRow ==
    [header |-> TRUE, trade |-> Trade(0, NoOrigin, ClearV2, TxOf(0, 0))]
\* csv_writer.serialize(trade) (lib.rs 211): one row of four fields.
serialize(trade) == [header |-> FALSE, trade |-> trade]

\* lib.rs 83-90: read_trades_csv. has_headers(true) makes the reader take the
\* first row of the file for the header, whatever it holds, and deserialize
\* every other row to a Trade by the names the header gives its fields: a
\* row is read only under the header's four names, and the header's text is
\* itself no Trade.
read_trades_csv(rows) ==
    LET records == IF rows = <<>> THEN <<>> ELSE Tail(rows)
    IN IF /\ records # <<>>
          /\ \/ rows[1] # HeaderRow
             \/ \E i \in 1..Len(records) : records[i].header
       THEN [ok |-> FALSE, trades |-> <<>>]
       ELSE [ok |-> TRUE,
             trades |-> [i \in 1..Len(records) |-> records[i].trade]]

\* A Result<BlockNumber> of get_start_block, with the chain lookups it made.
OkBlock(bn, n) == [ok |-> TRUE, block |-> bn, lookups |-> n]
ErrBlock(n) == [ok |-> FALSE, block |-> 0, lookups |-> n]

\* Mutant of get_start_block: saved_trades.last() is unwrapped unchecked, and
\* the file is read without asking whether it exists.
get_start_block_unchecked(exists, rows, rpc_ok) ==
    LET saved_trades == read_trades_csv(rows)
    IN IF ~exists \/ ~saved_trades.ok \/ saved_trades.trades = <<>>
       THEN ErrBlock(0)
       ELSE IF ~rpc_ok THEN ErrBlock(1)
       ELSE LET found == get_block_number_by_tx_hash(
                            saved_trades.trades[Len(saved_trades.trades)].tx_hash)
            IN OkBlock(IF found.some THEN found.value
                       ELSE orderbookv4_deployment_block, 1)

\* Mutant of get_start_block: unwrap_or_default() in the place of
\* unwrap_or(env.orderbookv4_deployment_block).
get_start_block_or_default(exists, rows, rpc_ok) ==
    IF ~exists THEN OkBlock(orderbookv4_deployment_block, 0)
    ELSE LET saved_trades == read_trades_csv(rows)
         IN IF ~saved_trades.ok THEN ErrBlock(0)
            ELSE IF saved_trades.trades = <<>>
            THEN OkBlock(orderbookv4_deployment_block, 0)
            ELSE IF ~rpc_ok THEN ErrBlock(1)
            ELSE LET latest_trade ==
                        saved_trades.trades[Len(saved_trades.trades)]
                     found == get_block_number_by_tx_hash(latest_trade.tx_hash)
                 IN OkBlock(IF found.some THEN found.value ELSE 0, 1)

\* lib.rs 93-118: get_start_block. rpc_ok: the provider answers the lookup
\* (otherwise `?` returns its error).
get_start_block(exists, rows, rpc_ok) ==
    IF ~exists THEN OkBlock(orderbookv4_deployment_block, 0)
    ELSE LET saved_trades == read_trades_csv(rows)
         IN IF ~saved_trades.ok THEN ErrBlock(0)
            ELSE IF saved_trades.trades = <<>>
            THEN OkBlock(orderbookv4_deployment_block, 0)
            ELSE IF ~rpc_ok THEN ErrBlock(1)
            ELSE LET latest_trade ==
                        saved_trades.trades[Len(saved_trades.trades)]
                     found == get_block_number_by_tx_hash(latest_trade.tx_hash)
                 IN OkBlock(IF found.some THEN found.value
                            ELSE orderbookv4_deployment_block, 1)

\* The logs of the mined blocks from start_block to end_block, both
\* included (from_block(..).to_block(..) of an eth_getLogs filter), in chain
\* order.
RECURSIVE LogsInRange(_, _)
LogsInRange(from_block, to_block) ==
    IF from_block > to_block THEN <<>>
    ELSE (IF from_block \in MinedBlocks THEN chain_logs[from_block] ELSE <<>>)
         \o LogsInRange(from_block + 1, to_block)

\* logs.rs 30-91 and 94-154: fetch_clearv2_trades and
\* fetch_takeorderv2_trades once the query has answered.
fetch_trades(ev, from_block, to_block) ==
    group_by_block(SelectEvent(LogsInRange(from_block, to_block), ev), EmptyMap)

\* The body of mined block bn, as get_block_by_number gives it: the header's
\* timestamp and the full transactions, each with its sender.
BlockBody(bn) ==
    BlockMetadata(BlockTimestamp(bn),
        [i \in 1..Len(chain_logs[bn]) |->
            TxMetadata(chain_logs[bn][i].tx_hash,
                       OriginOf(bn, chain_logs[bn][i].tx_hash))])

RECURSIVE fetch_block_bodies(_, _)
\* real.rs 82-130: the bodies of the blocks asked for; a block the provider
\* does not know is logged and left out.
fetch_block_bodies(block_numbers, acc) ==
    IF block_numbers = <<>> THEN acc
    ELSE LET bn == Head(block_numbers)
         IN IF bn \notin MinedBlocks
            THEN fetch_block_bodies(Tail(block_numbers), acc)
            ELSE fetch_block_bodies(Tail(block_numbers),
                    [x \in (DOMAIN acc) \cup {bn} |->
                        IF x = bn THEN BlockBody(bn) ELSE acc[x]])

RECURSIVE collect_batch(_, _, _)
\* lib.rs 178-202: the logs of the window mapped to trades. The body of a
\* log's block is taken out of block_bodies (remove), so the next log of the
\* same block finds none and the unwrap panics.
collect_batch(logs, bodies, acc) ==
    IF logs = <<>> THEN Returned(acc)
    ELSE LET trade == Head(logs)
         IN IF trade.block_number \notin DOMAIN bodies THEN Panicked
            ELSE LET block == bodies[trade.block_number]
                     tx_origin == find_map(block.transactions, trade.tx_hash)
                 IN IF ~tx_origin.some THEN Panicked
                    ELSE collect_batch(Tail(logs),
                            removed(bodies, trade.block_number),
                            Append(acc, Trade(block.timestamp, tx_origin.origin,
                                              trade.event, trade.tx_hash)))

\* ExponentialBuilder::default() (logs.rs 45 and 109): the retries a failed
\* event query is given before its error is returned.
retry_max_times == 3

\* Mutant of retry: the first error of the query is returned.
retry_never(failed_attempts) == failed_attempts = 0

\* query.retry(ExponentialBuilder::default()).await (logs.rs 44-49 and
\* 108-113): the query is run again after each failure, with the same block
\* range, until it answers or its retries are used up. failed_attempts is
\* the number of times the provider fails the query before it would answer.
retry(failed_attempts) == failed_attempts <= retry_max_times

\* What the provider does to the fetches of one window: how many times it
\* fails each of the two event queries, and whether it fails a block query.
\* The failures of one query that are told apart: none, as many as there
\* are retries, and one more.
FailedAttempts == {0, retry_max_times, retry_max_times + 1}

Failures ==
    [clearv2 : FailedAttempts, takeorderv2 : FailedAttempts, bodies : BOOLEAN]

\* The provider answers every call at once.
NoFailure == [clearv2 |-> 0, takeorderv2 |-> 0, bodies |-> FALSE]

\* Mutant of process_block_batch: the rows of a window whose fetch or merge
\* fails are serialized all the same.
process_block_batch_partial(from_block, to_block, failure) ==
    LET logs == LogsInRange(from_block, to_block)
        rows == [i \in 1..Len(logs) |->
                    serialize(Trade(BlockTimestamp(logs[i].block_number),
                                    OriginOf(logs[i].block_number, logs[i].tx_hash),
                                    logs[i].event, logs[i].tx_hash))]
    IN IF ~retry(failure.clearv2) \/ ~retry(failure.takeorderv2)
          \/ (failure.bodies /\ logs # <<>>)
       THEN [result |-> "err: process_block_batch", rows |-> rows]
       ELSE [result |-> "ok", rows |-> rows]

\* lib.rs 131-216: process_block_batch up to the rows it serializes: "ok"
\* with the rows, an error (a `?`), or "panic" (an unwrap, the assertion).
\* A block query is made, and can fail, only for a block with trades.
process_block_batch(from_block, to_block, failure) ==
    IF ~retry(failure.clearv2) \/ ~retry(failure.takeorderv2)
    THEN [result |-> "err: process_block_batch", rows |-> <<>>]
    ELSE LET clearv2_trades == fetch_trades(ClearV2, from_block, to_block)
             takeorderv2_trades == fetch_trades(TakeOrderV2, from_block, to_block)
             blocks == blocks_with_trades(clearv2_trades, takeorderv2_trades)
         IN IF failure.bodies /\ blocks # <<>>
            THEN [result |-> "err: process_block_batch", rows |-> <<>>]
            ELSE LET bodies == fetch_block_bodies(blocks, EmptyMap)
                     collected == assert_eq(
                         collect_batch(
                             flat_map(blocks, clearv2_trades, takeorderv2_trades),
                             bodies, <<>>),
                         clearv2_trades, takeorderv2_trades)
                 IN IF collected.panicked
                    THEN [result |-> "panic", rows |-> <<>>]
                    ELSE [result |-> "ok",
                          rows |-> [i \in 1..Len(collected.trades) |->
                                       serialize(collected.trades[i])]]

\* Mutant of flush: the rows stay in the writer and are lost with it.
flush_nothing(file, buffer) == file

\* Mutant of flush: the file is written from its start.
flush_truncating(file, buffer) == buffer

\* csv_writer.flush() (lib.rs 213), and the flush of the writer when it is
\* dropped: the rows the writer holds go to the end of the file, which was
\* opened with append(true) (lib.rs 46-50).
flush(file, buffer) == file \o buffer

\* One window of a run, as the run went through it: the block range asked
\* for, the chain's height and the logs the chain held in the range when
\* they were fetched, and how process_block_batch ended.
Window(from_block, to_block, height, logs, result) ==
    [from_block |-> from_block, to_block |-> to_block,
     height |-> height, logs |-> logs, result |-> result]

\* Some event query of the window failed, and each answered within its
\* retries; no block query failed.
Transient(failure) ==
    /\ failure.clearv2 > 0 \/ failure.takeorderv2 > 0
    /\ failure.clearv2 <= retry_max_times
    /\ failure.takeorderv2 <= retry_max_times
    /\ ~failure.bodies

\* ---------------------------------------------------- the runs as actions
Init ==
    /\ NoMergeCalls
    /\ current_block \in orderbookv4_deployment_block..MaxHeight
    /\ chain_logs \in Chains
    /\ mempool = {}
    /\ reorged = FALSE
    \* the store is absent, or an empty file
    /\ csv_exists \in BOOLEAN
    /\ csv_rows = <<>>
    /\ csv_writer = <<>>
    /\ pc = "idle"
    /\ runs = 0
    /\ file_exists = FALSE
    /\ start_block = 0
    /\ latest_block = 0
    /\ block_batch_start = 0
    /\ outcome = "ok"
    /\ tx_lookups = 0
    /\ saved_rows = <<>>
    /\ windows = <<>>
    /\ transient = FALSE
    /\ resuming = FALSE

\* lib.rs 38: a run starts; file_exists is read.
StartRun ==
    /\ pc = "idle"
    /\ runs < MaxRuns
    /\ runs' = runs + 1
    /\ file_exists' = csv_exists
    /\ pc' = "get_start_block"
    /\ outcome' = "ok"
    /\ tx_lookups' = 0
    /\ saved_rows' = csv_rows
    /\ windows' = <<>>
    /\ transient' = FALSE
    /\ resuming' = (/\ \E k \in 1..Len(windows) : windows[k].result = "ok"
                    /\ \A k \in 1..Len(windows) :
                          windows[k].height = current_block)
    /\ UNCHANGED <<current_block, chain_logs, mempool, reorged, csv_exists,
                   csv_rows, csv_writer, start_block, latest_block,
                   block_batch_start>>
    /\ UNCHANGED mvars

\* lib.rs 41: start_block = get_start_block(env, onchain).await?
GetStartBlock ==
    /\ pc = "get_start_block"
    /\ \E rpc_ok \in BOOLEAN :
          LET r == get_start_block(csv_exists, csv_rows, rpc_ok)
          IN /\ tx_lookups' = r.lookups
             /\ start_block' = IF r.ok THEN r.block ELSE start_block
             /\ outcome' = IF r.ok THEN "ok" ELSE "err: get_start_block"
             /\ pc' = IF r.ok THEN "get_block_number" ELSE "idle"
    /\ UNCHANGED <<current_block, chain_logs, mempool, reorged, csv_exists,
                   csv_rows, csv_writer, runs, file_exists, latest_block,
                   block_batch_start, saved_rows, windows, transient, resuming>>
    /\ UNCHANGED mvars

\* lib.rs 43: latest_block = onchain.get_block_number().await?
GetBlockNumber ==
    /\ pc = "get_block_number"
    /\ \E rpc_ok \in BOOLEAN :
          /\ latest_block' = IF rpc_ok THEN current_block ELSE latest_block
          /\ outcome' = IF rpc_ok THEN "ok" ELSE "err: get_block_number"
          /\ pc' = IF rpc_ok THEN "open_csv" ELSE "idle"
    /\ UNCHANGED <<current_block, chain_logs, mempool, reorged, csv_exists,
                   csv_rows, csv_writer, runs, file_exists, start_block,
                   block_batch_start, tx_lookups, saved_rows, windows,
                   transient, resuming>>
    /\ UNCHANGED mvars

\* lib.rs 46-62: the file is opened for appending (created when absent) and
\* the header is written to the writer when the file did not exist at 38.
OpenCsv ==
    /\ pc = "open_csv"
    /\ csv_exists' = TRUE
    /\ csv_writer' = IF file_exists THEN <<>> ELSE <<HeaderRow>>
    /\ block_batch_start' = start_block
    /\ pc' = "loop"
    /\ UNCHANGED <<current_block, chain_logs, mempool, reorged, csv_rows, runs,
                   file_exists, start_block, latest_block, outcome, tx_lookups,
                   saved_rows, windows, transient, resuming>>
    /\ UNCHANGED mvars

\* Mutant of step_by: the loop moves on by one block.
step_by_one(batch_start) == batch_start + 1

\* lib.rs 67-68: (start_block..latest_block).step_by(blocks_per_log_request),
\* the element that follows batch_start.
step_by(batch_start) == batch_start + blocks_per_log_request

\* lib.rs 67-78, one turn of the loop: process_block_batch on the window
\* [block_batch_start, block_batch_start + blocks_per_log_request]. On "ok"
\* the rows are serialized and flushed (lib.rs 210-213); on an error or a
\* panic the writer is dropped, which flushes what it holds.
ProcessBlockBatch ==
    /\ pc = "loop"
    /\ block_batch_start < latest_block
    /\ \E failure \in Failures :
          LET block_batch_end == block_batch_start + blocks_per_log_request
              r == process_block_batch(block_batch_start, block_batch_end,
                                       failure)
          IN /\ csv_rows' = flush(csv_rows, csv_writer \o r.rows)
             /\ outcome' = r.result
             /\ pc' = IF r.result = "ok" THEN "loop" ELSE "idle"
             /\ block_batch_start' =
                   IF r.result = "ok"
                   THEN step_by(block_batch_start)
                   ELSE block_batch_start
             /\ windows' = Append(windows,
                   Window(block_batch_start, block_batch_end,
                          current_block,
                          LogsInRange(block_batch_start, block_batch_end),
                          r.result))
             /\ transient' = Transient(failure)
    /\ csv_writer' = <<>>
    /\ UNCHANGED <<current_block, chain_logs, mempool, reorged, csv_exists,
                   runs, file_exists, start_block, latest_block, tx_lookups,
                   saved_rows, resuming>>
    /\ UNCHANGED mvars

\* lib.rs 80: the range is exhausted; Ok(()) and the writer is dropped.
FinishRun ==
    /\ pc = "loop"
    /\ block_batch_start >= latest_block
    /\ csv_rows' = flush(csv_rows, csv_writer)
    /\ csv_writer' = <<>>
    /\ outcome' = "ok"
    /\ pc' = "idle"
    /\ UNCHANGED <<current_block, chain_logs, mempool, reorged, csv_exists,
                   runs, file_exists, start_block, latest_block,
                   block_batch_start, tx_lookups, saved_rows, windows,
                   transient, resuming>>
    /\ UNCHANGED mvars

\* The chain grows by a block (mock.rs 32-34, set_current_block, in the test),
\* between two runs or between two windows of a run; a block mined while a
\* run resolves its checkpoint or opens the store is seen by the run as one
\* mined just before or just after. Once the last run has ended nothing
\* reads the chain any more.
MineBlock ==
    /\ pc = "loop" \/ (pc = "idle" /\ runs < MaxRuns)
    /\ current_block < MaxHeight
    /\ current_block' = current_block + 1
    /\ UNCHANGED <<chain_logs, mempool, reorged, csv_exists, csv_rows,
                   csv_writer, pc, runs, file_exists, start_block, latest_block,
                   block_batch_start, outcome, tx_lookups, saved_rows, windows,
                   transient, resuming>>
    /\ UNCHANGED mvars

\* The transactions of the mined blocks from bn on.
TxsFrom(bn) ==
    UNION {{chain_logs[b][i].tx_hash : i \in 1..Len(chain_logs[b])}
           : b \in bn..current_block}

\* The transactions of the rows of the store.
StoredTxs == {csv_rows[i].trade.tx_hash : i \in 1..Len(csv_rows)}

\* A reorganization between two runs: the transactions of the blocks from
\* bn on leave the chain, and either wait in the mempool or are forgotten.
\* Only a reorganization that takes a stored transaction off the chain is
\* modelled: any other leaves a chain that is one of Chains as well.
Reorg ==
    /\ pc = "idle"
    /\ runs < MaxRuns
    /\ ~reorged
    /\ \E bn \in MinedBlocks, pending \in BOOLEAN :
          /\ TxsFrom(bn) \cap StoredTxs # {}
          /\ mempool' = IF pending THEN TxsFrom(bn) ELSE {}
          /\ chain_logs' = [b \in DOMAIN chain_logs |->
                              IF b >= bn /\ b <= current_block THEN <<>>
                              ELSE chain_logs[b]]
    /\ reorged' = TRUE
    /\ UNCHANGED <<current_block, csv_exists, csv_rows, csv_writer, pc, runs,
                   file_exists, start_block, latest_block, block_batch_start,
                   outcome, tx_lookups, saved_rows, windows, transient, resuming>>
    /\ UNCHANGED mvars

Next ==
    \/ StartRun
    \/ GetStartBlock
    \/ GetBlockNumber
    \/ OpenCsv
    \/ ProcessBlockBatch
    \/ FinishRun
    \/ MineBlock
    \/ Reorg

Spec == Init /\ [][Next]_vars

\* ------------------------------------------- properties of the checkpoint
\* The trades a reader of the store gets.
SavedTrades == read_trades_csv(csv_rows).trades

\* The last of them.
LatestTrade == SavedTrades[Len(SavedTrades)]

\* get_start_block has just returned a block to the run. (The store and the
\* chain are as it saw them: nothing is written before the store is opened,
\* and the chain moves between runs and between windows only.)
StartBlockReturned == pc = "get_block_number"

\* get_start_block has just returned, a block or an error.
GetStartBlockReturned ==
    \/ StartBlockReturned
    \/ pc = "idle" /\ outcome = "err: get_start_block"

\* C9. Checkpoint, resolved case: when the store holds a record and the last
\* record's transaction is in a block of the chain, the start block is the
\* number of that block.
C9_ResolvedCheckpoint ==
    (/\ StartBlockReturned
     /\ csv_exists
     /\ SavedTrades # <<>>
     /\ BlocksHolding(LatestTrade.tx_hash) # {}) =>
        start_block \in BlocksHolding(LatestTrade.tx_hash)

\* C10. Checkpoint, empty case: when the store file does not exist, or exists
\* and holds zero records, get_start_block returns the deployment block
\* number and makes no chain lookup.
C10_EmptyCheckpoint ==
    (/\ GetStartBlockReturned
     /\ \/ ~csv_exists
        \/ read_trades_csv(csv_rows).ok /\ SavedTrades = <<>>) =>
        /\ StartBlockReturned
        /\ start_block = orderbookv4_deployment_block
        /\ tx_lookups = 0

\* A second run finds the file with its header and no record.
C10_Witness ==
    /\ StartBlockReturned
    /\ runs = 2
    /\ csv_exists
    /\ csv_rows = <<HeaderRow>>
    /\ start_block = orderbookv4_deployment_block
    /\ tx_lookups = 0

\* The provider answered the lookup of get_start_block, if one was made:
\* the only error after a lookup is the provider's.
ProviderAnswered == ~(outcome = "err: get_start_block" /\ tx_lookups = 1)

\* C11. Checkpoint, unresolved case: when the store holds a record and the
\* last record's transaction is in no block of the chain (unknown, or known
\* with no block number), get_start_block returns the deployment block
\* number and does not fail.
C11_UnresolvedCheckpoint ==
    (/\ GetStartBlockReturned
     /\ ProviderAnswered
     /\ csv_exists
     /\ SavedTrades # <<>>
     /\ BlocksHolding(LatestTrade.tx_hash) = {}) =>
        /\ StartBlockReturned
        /\ start_block = orderbookv4_deployment_block

\* After a reorganization the last record's transaction waits in the
\* mempool, with no block number.
C11_Witness ==
    /\ StartBlockReturned
    /\ reorged
    /\ SavedTrades # <<>>
    /\ LatestTrade.tx_hash \in mempool
    /\ BlocksHolding(LatestTrade.tx_hash) = {}
    /\ tx_lookups = 1
    /\ start_block = orderbookv4_deployment_block

AddedRows == SubSeq(csv_rows, Len(saved_rows) + 1, Len(csv_rows))

IsRecord(row) == ~row.header

\* The record rows among rows, in order.
Records(rows) == SelectSeq(rows, IsRecord)

\* The on-chain event a record was made from: the log of its transaction
\* (in the chains modelled every log has a transaction of its own).
EventOf(row) == row.trade.tx_hash

\* C13. Each trade is appended once: no two records a run has added come
\* from the same on-chain event.
C13_AppendedOnce ==
    LET added == Records(AddedRows)
    IN \A i, j \in 1..Len(added) :
          i < j => EventOf(added[i]) # EventOf(added[j])

\* (block_number, log_index) of the event of record a is at most that of b.
EventLeq(a, b) ==
    \/ EventOf(a).block < EventOf(b).block
    \/ EventOf(a).block = EventOf(b).block /\ EventOf(a).tx <= EventOf(b).tx

\* The run started from a store that was absent or held no record.
StartedEmpty == runs >= 1 /\ Records(saved_rows) = <<>>

\* C14. Store order: during and after a run that started from a store that
\* was absent or empty, the records of the store, in insertion order, never
\* decrease by (block_number, log_index) of their events.
C14_StoreOrder ==
    StartedEmpty =>
        LET records == Records(csv_rows)
        IN \A i \in 1..Len(records) :
              i < Len(records) => EventLeq(records[i], records[i + 1])

\* Two windows have appended records of different blocks.
C14_Witness ==
    /\ StartedEmpty
    /\ Len(windows) = 2
    /\ windows[1].result = "ok" /\ windows[1].logs # <<>>
    /\ windows[2].result = "ok" /\ windows[2].logs # <<>>
    /\ Len(Records(csv_rows)) >= 2
    /\ EventOf(Records(csv_rows)[1]).block
          < EventOf(Records(csv_rows)[Len(Records(csv_rows))]).block

\* The row of the trade of a log: the timestamp of the log's block and the
\* sender of the log's transaction.
RowOf(log) ==
    serialize(Trade(BlockTimestamp(log.block_number),
                    OriginOf(log.block_number, log.tx_hash),
                    log.event, log.tx_hash))

\* The complete merge output of a window: a row for every log the chain
\* held in the window, in the chain's order.
MergeOutput(w) == [i \in 1..Len(w.logs) |-> RowOf(w.logs[i])]

\* The merge outputs of the windows that ended well, one after another.
RECURSIVE Outputs(_)
Outputs(ws) ==
    IF ws = <<>> THEN <<>>
    ELSE (IF Head(ws).result = "ok" THEN MergeOutput(Head(ws)) ELSE <<>>)
         \o Outputs(Tail(ws))

\* C15. Window atomicity and abort: the records a run has added are the
\* complete merge outputs of the windows before the first that failed, one
\* after another; a window that fails is the run's last, ends the run with
\* an error, and leaves no record.
C15_WindowAtomicity ==
    runs >= 1 =>
        /\ Records(AddedRows) = Outputs(windows)
        /\ \A k \in 1..Len(windows) :
              windows[k].result # "ok" =>
                  /\ k = Len(windows)
                  /\ pc = "idle"
                  /\ outcome = windows[k].result
                  /\ outcome \in {"err: process_block_batch", "panic"}
                  /\ Records(AddedRows)
                        = Outputs(SubSeq(windows, 1, k - 1))

\* The second window fails after the first has appended its records.
C15_Witness ==
    /\ Len(windows) = 2
    /\ windows[1].result = "ok" /\ windows[1].logs # <<>>
    /\ windows[2].result = "err: process_block_batch"
    /\ windows[2].logs # <<>>
    /\ pc = "idle"
    /\ Records(AddedRows) = MergeOutput(windows[1])

\* The run has completed: update_trades_csv returned Ok(()).
Completed == pc = "idle" /\ runs >= 1 /\ outcome = "ok"

\* The chain is as it was when the run before appended its first window.
ChainUnchanged ==
    /\ resuming
    /\ ~reorged
    /\ latest_block = current_block
    /\ \A k \in 1..Len(windows) : windows[k].height = current_block

\* C16. Resume without skipping: when a run that appended some windows is
\* followed, on an unchanged chain, by a run that completes, every event of
\* the blocks from the deployment block to the height the second run read
\* is in the store.
C16_ResumeWithoutSkipping ==
    (Completed /\ runs >= 2 /\ ChainUnchanged) =>
        \A bn \in orderbookv4_deployment_block..latest_block :
           \A i \in 1..Len(chain_logs[bn]) :
              chain_logs[bn][i].tx_hash \in StoredTxs

\* C17. Window coverage: in a run that completes, every block from the
\* start block to the height read at the start of the run is inside a
\* fetched window.
C17_WindowCoverage ==
    Completed =>
        \A bn \in start_block..latest_block :
           \E k \in 1..Len(windows) :
              windows[k].from_block <= bn /\ bn <= windows[k].to_block

\* This step fetches a window.
FetchesWindow == Len(windows') = Len(windows) + 1

\* C18. Strict window sequencing: when the fetch of a window starts, the
\* records of every window before it are in the file and none is left in
\* the writer; the step appends the window's own records, whole, after
\* them, or none.
C18_StrictSequencing ==
    [][FetchesWindow =>
          /\ Records(csv_writer) = <<>>
          /\ Records(AddedRows) = Outputs(windows)
          /\ Len(csv_rows') >= Len(csv_rows)
          /\ SubSeq(csv_rows', 1, Len(csv_rows)) = csv_rows
          /\ Records(csv_rows') \in
                {Records(csv_rows),
                 Records(csv_rows) \o MergeOutput(windows'[Len(windows')])}
      ]_vars

\* The second window is about to end the loop: both windows' records are
\* in the file, the first window's before the second's.
C18_Witness ==
    /\ pc = "loop"
    /\ Len(windows) = 2
    /\ windows[1].result = "ok" /\ windows[1].logs # <<>>
    /\ windows[2].result = "ok" /\ windows[2].logs # <<>>
    /\ csv_writer = <<>>
    /\ Records(AddedRows)
          = MergeOutput(windows[1]) \o MergeOutput(windows[2])

\* C19. Append-only across runs: the rows the store held when a run
\* started are still its first rows, unchanged, during and after the run.
C19_AppendOnly ==
    /\ Len(csv_rows) >= Len(saved_rows)
    /\ SubSeq(csv_rows, 1, Len(saved_rows)) = saved_rows

\* A second run has added records after those of the first.
C19_Witness ==
    /\ runs = 2
    /\ Completed
    /\ Records(saved_rows) # <<>>
    /\ Records(AddedRows) # <<>>
    /\ SubSeq(csv_rows, 1, Len(saved_rows)) = saved_rows

\* C20. Transient fetch errors are invisible: a window whose event queries
\* fail and answer within their retries appends the rows, and ends, as the
\* same window does when no query fails, and the run goes on to the next
\* window.
C20_TransientInvisible ==
    [][(FetchesWindow /\ transient') =>
          LET untroubled ==
                 process_block_batch(block_batch_start,
                     block_batch_start + blocks_per_log_request, NoFailure)
          IN /\ csv_rows' = csv_rows \o csv_writer \o untroubled.rows
             /\ outcome' = untroubled.result
             /\ untroubled.result = "ok" =>
                   /\ pc' = "loop"
                   /\ block_batch_start'
                         = block_batch_start + blocks_per_log_request
      ]_vars

\* A window whose queries were retried has appended its records and the
\* run is in its loop.
C20_Witness ==
    /\ transient
    /\ pc = "loop"
    /\ windows # <<>>
    /\ windows[Len(windows)].result = "ok"
    /\ windows[Len(windows)].logs # <<>>
    /\ Records(AddedRows) = Outputs(windows)

\* Some block holds two or more of the logs of window w.
TwoEventsInOneBlock(w) ==
    \E i, j \in 1..Len(w.logs) :
       i # j /\ w.logs[i].block_number = w.logs[j].block_number

\* C21. Two events in one block: a window whose fetches all answer, and in
\* which one block holds two or more events, ends without a fatal fault and
\* appends a row for each of its events, each with the timestamp of its
\* block.
C21_TwoEventsInOneBlock ==
    \A k \in 1..Len(windows) :
       (/\ TwoEventsInOneBlock(windows[k])
        /\ windows[k].result # "err: process_block_batch") =>
           /\ windows[k].result = "ok"
           /\ Len(Records(AddedRows)) >= Len(windows[k].logs)

\* The last run opened the store (lib.rs 46-62) before it ended.
OpenedStore ==
    /\ pc = "idle"
    /\ runs >= 1
    /\ outcome \in {"ok", "err: process_block_batch", "panic"}

\* C22. Header invariant: after a run that opened the store, on a file that
\* was absent or one that existed and was empty, the store is one header
\* row followed by record rows only, and reading it back gives every record
\* appended.
C22_HeaderInvariant ==
    OpenedStore =>
        /\ csv_rows # <<>>
        /\ csv_rows[1] = HeaderRow
        /\ \A i \in 2..Len(csv_rows) : ~csv_rows[i].header
        /\ read_trades_csv(csv_rows).ok
        /\ Len(SavedTrades) = Len(Records(csv_rows))
        /\ \A i \in 1..Len(SavedTrades) :
              SavedTrades[i] = Records(csv_rows)[i].trade

\* ceil((H - S) / window size), and zero when S >= H.
WindowCount(S, H) ==
    IF S >= H THEN 0
    ELSE (H - S + blocks_per_log_request - 1) \div blocks_per_log_request

\* No window of the run has failed, in its fetches or in its merge.
AllWindowsOk == \A k \in 1..Len(windows) : windows[k].result = "ok"

\* The windows of a run without a failure: window k starts k - 1 window
\* sizes after the start block, there are never more than WindowCount of
\* them, the loop goes on while there are fewer and ends when there are as
\* many, and the completed run has processed exactly WindowCount.
WindowsCounted ==
    ((pc = "loop" \/ Completed) /\ AllWindowsOk) =>
        /\ blocks_per_log_request >= 1
        /\ Len(windows) <= WindowCount(start_block, latest_block)
        /\ \A k \in 1..Len(windows) :
              windows[k].from_block
                 = start_block + (k - 1) * blocks_per_log_request
        /\ Completed => Len(windows) = WindowCount(start_block, latest_block)
        /\ pc = "loop" =>
              (block_batch_start < latest_block
                 <=> Len(windows) < WindowCount(start_block, latest_block))

\* The windows the loop has still to process.
Remaining == WindowCount(block_batch_start, latest_block)

\* A step of the run in its loop.
LoopStep ==
    /\ pc = "loop"
    /\ pc' # pc \/ windows' # windows \/ block_batch_start' # block_batch_start

====
